---- MODULE Spec2Model ----
(***************************************************************************)
(* Release automation of NightScoutMongoBackup: the semantic-release       *)
(* plugin that bumps the bot and API versions (update_python_version),     *)
(* the version query script (get_version.js) and the wrapper manifest      *)
(* sync script (sync_versions.js).                                         *)
(*                                                                         *)
(* Text is modelled as a sequence of one-character strings; the two keys   *)
(* "__version__" and "version" are single symbols of that alphabet.        *)
(* JavaScript numbers are modelled as records [nan, val]; every value of   *)
(* the model stays far below 2^53, where doubles are exact integers.       *)
(***************************************************************************)
EXTENDS Integers, Sequences, FiniteSets, TLC

\* ------------------------------------------------------------------ bounds
MaxComp == 2
MaxCommits == 2

\* A JavaScript const binding: x is evaluated once and F is applied to its
\* value.
Const(x, F(_)) == CHOOSE r \in { F(v) : v \in {x} } : TRUE

\* ------------------------------------------------------- text and numbers
Digits == <<"0", "1", "2", "3", "4", "5", "6", "7", "8", "9">>

IsDigit(c) == \E i \in 1..10 : Digits[i] = c

DigitVal(c) == (CHOOSE i \in 1..10 : Digits[i] = c) - 1

IsSpace(c) == c \in {" ", "\n", "\t"}

IsQuote(c) == c \in {"\"", "'"}

NaN == [nan |-> TRUE, val |-> 0]

Num(n) == [nan |-> FALSE, val |-> n]

\* the value of the first k digits of s
RECURSIVE DigitsValueTo(_, _)
DigitsValueTo(s, k) ==
    IF k = 0 THEN 0 ELSE 10 * DigitsValueTo(s, k - 1) + DigitVal(s[k])

DigitsValue(s) == DigitsValueTo(s, Len(s))

AllDigits(s) == \A i \in 1..Len(s) : IsDigit(s[i])

RECURSIVE TrimLeft(_)
TrimLeft(s) ==
    IF s # <<>> /\ IsSpace(s[1]) THEN TrimLeft(Tail(s)) ELSE s

RECURSIVE TrimRight(_)
TrimRight(s) ==
    IF s # <<>> /\ IsSpace(s[Len(s)])
    THEN TrimRight(SubSeq(s, 1, Len(s) - 1)) ELSE s

\* String.prototype.trim
Trim(s) == TrimRight(TrimLeft(s))

\* Number(string) on the model's alphabet: surrounding white space is
\* dropped, the empty string is 0, an optionally signed run of digits is its
\* value, anything else is NaN.
ToNumber(s) ==
    Const(Trim(s), LAMBDA t :
        IF t = <<>> THEN Num(0)
        ELSE IF AllDigits(t) THEN Num(DigitsValue(t))
        ELSE IF t[1] \in {"-", "+"} /\ Len(t) > 1 /\ AllDigits(Tail(t))
             THEN Num((IF t[1] = "-" THEN -1 ELSE 1) * DigitsValue(Tail(t)))
        ELSE NaN)

\* x + 1 on numbers (NaN + 1 is NaN)
PlusOne(x) == IF x.nan THEN NaN ELSE Num(x.val + 1)

RECURSIVE NatToString(_)
NatToString(n) ==
    IF n < 10 THEN <<Digits[n + 1]>>
    ELSE NatToString(n \div 10) \o <<Digits[(n % 10) + 1]>>

\* `${x}` of a number
NumberToString(x) ==
    IF x.nan THEN <<"N", "a", "N">>
    ELSE IF x.val < 0 THEN <<"-">> \o NatToString(-x.val)
    ELSE NatToString(x.val)

\* index of the first "." of s at or after i, Len(s) + 1 when there is none
RECURSIVE NextDot(_, _)
NextDot(s, i) ==
    IF i > Len(s) THEN Len(s) + 1
    ELSE IF s[i] = "." THEN i
    ELSE NextDot(s, i + 1)

\* the fields of s that start at index i or later
RECURSIVE SplitFrom(_, _)
SplitFrom(s, i) ==
    Const(NextDot(s, i), LAMBDA d :
        IF d > Len(s) THEN <<SubSeq(s, i, Len(s))>>
        ELSE <<SubSeq(s, i, d - 1)>> \o SplitFrom(s, d + 1))

\* s.split('.')
Split(s) == SplitFrom(s, 1)

\* element i of an array after .map(Number); a missing element is undefined,
\* and undefined behaves as NaN in the arithmetic and formatting that follow
NumberAt(parts, i) == IF i <= Len(parts) THEN ToNumber(parts[i]) ELSE NaN

ReleaseTypes == {"major", "minor", "patch"}

calculateNextVersionNoReset(currentVersion, releaseType) ==
    Const(Split(currentVersion), LAMBDA parts :
    LET major == NumberAt(parts, 1)
        minor == NumberAt(parts, 2)
        patch == NumberAt(parts, 3)
    IN  CASE releaseType = "major" ->
               NumberToString(PlusOne(major)) \o <<".">> \o NumberToString(minor)
                   \o <<".">> \o NumberToString(patch)
          [] releaseType = "minor" ->
               NumberToString(major) \o <<".">> \o NumberToString(PlusOne(minor))
                   \o <<".">> \o NumberToString(patch)
          [] releaseType = "patch" ->
               NumberToString(major) \o <<".">> \o NumberToString(minor)
                   \o <<".">> \o NumberToString(PlusOne(patch))
          [] OTHER -> currentVersion)

calculateNextVersion(currentVersion, releaseType) ==
    Const(Split(currentVersion), LAMBDA parts :
    LET major == NumberAt(parts, 1)
        minor == NumberAt(parts, 2)
        patch == NumberAt(parts, 3)
    IN  CASE releaseType = "major" ->
               NumberToString(PlusOne(major)) \o <<".", "0", ".", "0">>
          [] releaseType = "minor" ->
               NumberToString(major) \o <<".">> \o NumberToString(PlusOne(minor))
                   \o <<".", "0">>
          [] releaseType = "patch" ->
               NumberToString(major) \o <<".">> \o NumberToString(minor)
                   \o <<".">> \o NumberToString(PlusOne(patch))
          [] OTHER -> currentVersion)

\* ------------------------------------------------------- commit messages
UpperCase == <<"A", "B", "C", "D", "E", "F", "G", "H", "I", "J", "K", "L", "M",
               "N", "O", "P", "Q", "R", "S", "T", "U", "V", "W", "X", "Y", "Z">>

LowerCase == <<"a", "b", "c", "d", "e", "f", "g", "h", "i", "j", "k", "l", "m",
               "n", "o", "p", "q", "r", "s", "t", "u", "v", "w", "x", "y", "z">>

\* case folding of the /i flag
ToLower(c) ==
    IF \E i \in 1..26 : UpperCase[i] = c
    THEN LowerCase[CHOOSE i \in 1..26 : UpperCase[i] = c]
    ELSE c

\* /^prefix/i
StartsWithI(msg, prefix) ==
    /\ Len(msg) >= Len(prefix)
    /\ \A i \in 1..Len(prefix) : ToLower(msg[i]) = prefix[i]

\* the alternatives of /^(bot|feat\(bot\)|fix\(bot\)|perf\(bot\)|refactor\(bot\))/i
\* with scope "bot", and of the api pattern with scope "api"
ScopePrefixes(scope) ==
    { scope,
      <<"f", "e", "a", "t", "(">> \o scope \o <<")">>,
      <<"f", "i", "x", "(">> \o scope \o <<")">>,
      <<"p", "e", "r", "f", "(">> \o scope \o <<")">>,
      <<"r", "e", "f", "a", "c", "t", "o", "r", "(">> \o scope \o <<")">> }

BotScope == <<"b", "o", "t">>

ApiScope == <<"a", "p", "i">>

MatchesBot(message) == \E p \in ScopePrefixes(BotScope) : StartsWithI(message, p)

MatchesApi(message) == \E p \in ScopePrefixes(ApiScope) : StartsWithI(message, p)

analyzeCommitsNoFallback(cs) ==
    LET hasBotCommits == \E i \in 1..Len(cs) : MatchesBot(cs[i].message)
        hasApiCommits == \E i \in 1..Len(cs) : MatchesApi(cs[i].message)
    IN  [bumpBot |-> hasBotCommits, bumpApi |-> hasApiCommits]

analyzeCommits(cs) ==
    LET hasBotCommits == \E i \in 1..Len(cs) : MatchesBot(cs[i].message)
        hasApiCommits == \E i \in 1..Len(cs) : MatchesApi(cs[i].message)
    IN  [bumpBot |-> hasBotCommits \/ (~hasBotCommits /\ ~hasApiCommits),
         bumpApi |-> hasApiCommits \/ (~hasBotCommits /\ ~hasApiCommits)]

\* ------------------------------------------------------------ file text
\* first index >= i of s that holds no white space (Len(s) + 1 at the end)
RECURSIVE SkipSpace(_, _)
SkipSpace(s, i) ==
    IF i <= Len(s) /\ IsSpace(s[i]) THEN SkipSpace(s, i + 1) ELSE i

\* first index >= i of s that holds a quote (Len(s) + 1 at the end)
RECURSIVE SkipNonQuote(_, _)
SkipNonQuote(s, i) ==
    IF i <= Len(s) /\ ~IsQuote(s[i]) THEN SkipNonQuote(s, i + 1) ELSE i

NoMatch == [ok |-> FALSE, from |-> 0, to |-> 0, group |-> <<>>]

\* An attempt of  key\s*=\s*["']([^"']+)["']  at index i of s; with
\* lineStart the key must open a line (the ^ of the /m flag).
MatchAt(s, i, key, lineStart) ==
    LET eq == SkipSpace(s, i + 1)
        q1 == SkipSpace(s, eq + 1)
        q2 == SkipNonQuote(s, q1 + 1)
    IN  IF /\ s[i] = key
           /\ (lineStart => (i = 1 \/ s[i - 1] = "\n"))
           /\ eq <= Len(s) /\ s[eq] = "="
           /\ q1 <= Len(s) /\ IsQuote(s[q1])
           /\ q2 > q1 + 1
           /\ q2 <= Len(s)
        THEN [ok |-> TRUE, from |-> i, to |-> q2,
              group |-> SubSeq(s, q1 + 1, q2 - 1)]
        ELSE NoMatch

\* the leftmost match of the pattern in s at index i or later
RECURSIVE MatchFrom(_, _, _, _)
MatchFrom(s, i, key, lineStart) ==
    IF i > Len(s) THEN NoMatch
    ELSE Const(MatchAt(s, i, key, lineStart), LAMBDA m :
             IF m.ok THEN m ELSE MatchFrom(s, i + 1, key, lineStart))

\* the leftmost match of the pattern in s
FirstMatch(s, key, lineStart) == MatchFrom(s, 1, key, lineStart)

\* content.replace(pattern, replacement): the leftmost match only
ReplaceFirst(s, key, lineStart, replacement) ==
    Const(FirstMatch(s, key, lineStart), LAMBDA m :
        IF m.ok
        THEN SubSeq(s, 1, m.from - 1) \o replacement \o SubSeq(s, m.to + 1, Len(s))
        ELSE s)

PyKey == "__version__"

TomlKey == "version"

\* A file is [present, content]; reading or writing can also fail for a
\* present file (permissions, I/O error), which the actions choose with the
\* flags io they pass down.  null is the value of a failed read.
null == <<"null">>

\* readPythonVersion(filePath): ioOk is whether fs.readFileSync succeeds
readPythonVersion(file, ioOk) ==
    IF ~(file.present /\ ioOk) THEN null
    ELSE Const(FirstMatch(file.content, PyKey, FALSE), LAMBDA m :
             IF m.ok THEN m.group ELSE null)

PyAssignmentTagged(newVersion) ==
    <<PyKey, " ", "=", " ", "\"", "v">> \o newVersion \o <<"\"">>

\* the text updatePythonVersion substitutes
PyAssignment(newVersion) ==
    <<PyKey, " ", "=", " ", "\"">> \o newVersion \o <<"\"">>

\* updatePythonVersion(filePath, newVersion): [ok, file]; ioOk is whether
\* fs.readFileSync and fs.writeFileSync both succeed (either failure is
\* caught, leaves the file as it was and returns false)
updatePythonVersion(file, newVersion, ioOk) ==
    IF ~(file.present /\ ioOk) THEN [ok |-> FALSE, file |-> file]
    ELSE [ok |-> TRUE,
          file |-> [file EXCEPT !.content =
                      ReplaceFirst(@, PyKey, FALSE, PyAssignment(newVersion))]]

\* updatePyprojectVersion(filePath, newVersion)
updatePyprojectVersion(file, newVersion, ioOk) ==
    IF ~(file.present /\ ioOk) THEN [ok |-> FALSE, file |-> file]
    ELSE [ok |-> TRUE,
          file |-> [file EXCEPT !.content =
                      ReplaceFirst(@, TomlKey, TRUE,
                          <<TomlKey, " ", "=", " ", "\"">> \o newVersion \o <<"\"">>)]]

\* get_version.js for one app: [status, stdout]; the script prints the
\* captured group followed by a newline, or exits 1
getVersionScript(file, ioOk) ==
    IF ~(file.present /\ ioOk) THEN [status |-> 1, stdout |-> <<>>]
    ELSE Const(FirstMatch(file.content, PyKey, FALSE), LAMBDA m :
             IF m.ok /\ m.group # <<>>
             THEN [status |-> 0, stdout |-> m.group \o <<"\n">>]
             ELSE [status |-> 1, stdout |-> <<>>])

\* updatePackageJson(wrapperDir, appName, version): the manifest is written
\* whole from the name and the version; ioOk is whether the write succeeds
updatePackageJson(manifest, appName, version, ioOk) ==
    IF ~ioOk THEN [ok |-> FALSE, file |-> manifest]
    ELSE [ok |-> TRUE,
          file |-> [present |-> TRUE, name |-> appName, version |-> version]]

\* getVersion(app) of sync_versions.js: the trimmed output of get_version.js,
\* null when the child could not be run or exited non-zero
getVersion(file, ioOk) ==
    Const(getVersionScript(file, ioOk), LAMBDA r :
        IF r.status # 0 THEN null ELSE Trim(r.stdout))

\* JavaScript !x for a string or null
Falsy(x) == x = null \/ x = <<>>

\* The main program of sync_versions.js on the file system f.  io is the
\* outcome of each file operation: [readBot, readApi, writeBot, writeApi].
\* The result is the exit status and the file system it leaves.
syncVersionsMain(f, io) ==
    Const(getVersion(f.bot, io.readBot), LAMBDA botVersion :
    Const(getVersion(f.api, io.readApi), LAMBDA apiVersion :
    LET botUpdated == updatePackageJson(f.botPkg, "nightscout-backup-bot",
                                        botVersion, io.writeBot)
        apiUpdated == updatePackageJson(f.apiPkg, "nightscout-backup-api",
                                        apiVersion, io.writeApi)
    IN  IF Falsy(botVersion) \/ Falsy(apiVersion)
        THEN [status |-> 1, fs |-> f]
        ELSE [status |-> IF botUpdated.ok /\ apiUpdated.ok THEN 0 ELSE 1,
              fs |-> [f EXCEPT !.botPkg = botUpdated.file,
                               !.apiPkg = apiUpdated.file]]))

AllOk == [readBot |-> TRUE, readApi |-> TRUE, writeBot |-> TRUE, writeApi |-> TRUE]

SyncIo == [readBot : BOOLEAN, readApi : BOOLEAN,
           writeBot : BOOLEAN, writeApi : BOOLEAN]

\* syncWrapperVersions(botVersion, apiVersion): the two arguments are not
\* used; spawnOk is whether the child process could be started
syncWrapperVersions(f, spawnOk, io) ==
    IF ~spawnOk THEN [ok |-> FALSE, fs |-> f]
    ELSE Const(syncVersionsMain(f, io), LAMBDA r :
             [ok |-> r.status = 0, fs |-> r.fs])

\* ------------------------------------------------------------- the inputs
Text(content) == [present |-> TRUE, content |-> content]

Missing == [present |-> FALSE, content |-> <<>>]

\* contents of src/nightscout_backup_bot/__init__.py
BotFiles ==
    { Text(<<PyKey, " ", "=", " ", "\"", "2", ".", "0", ".", "0", "\"", "\n">>),
      Text(<<"#", "\n", PyKey, "=", "'", "1", ".", "9", ".", "9", "'", "\n",
             PyKey, " ", "=", " ", "\"", "0", ".", "0", ".", "1", "\"", "\n">>),
      Text(<<PyKey, " ", "=", " ", "\"", "1", ".", "2", "\"", "\n">>),
      Text(<<PyKey, " ", "=", " ", "\"", "1", ".", "2", ".", "3", "-", "a", "\"", "\n">>),
      Text(<<"#", " ", "b", "o", "t", "\n">>),
      Missing }

\* contents of src/nightscout_backup_bot/api/__init__.py
ApiFiles ==
    { Text(<<PyKey, " ", "=", " ", "\"", "1", ".", "5", ".", "2", "\"", "\n">>),
      Text(<<PyKey, " ", "=", " ", "\"", "0", ".", "9", "\"", "\n">>),
      Text(<<"#", " ", "a", "p", "i", "\n">>) }

\* contents of pyproject.toml; a pyprojectFile option that is not set behaves
\* as a file that does not exist
PyprojectFiles ==
    { Text(<<"n", "a", "m", "e", " ", "=", " ", "\"", "a", "\"", "\n",
             TomlKey, " ", "=", " ", "\"", "2", ".", "0", ".", "0", "\"", "\n">>),
      Text(<<"t", "-", TomlKey, " ", "=", " ", "\"", "3", "\"", "\n">>),
      Missing }

StaleManifest(appName) ==
    [present |-> TRUE, name |-> appName, version |-> <<"0", ".", "0", ".", "0">>]

\* commit messages: "feat(bot): x", "feat(api): add", "chore: cleanup"
BotMessage == <<"f", "e", "a", "t", "(", "b", "o", "t", ")", ":", " ", "x">>

ApiMessage == <<"f", "e", "a", "t", "(", "a", "p", "i", ")", ":", " ", "a", "d", "d">>

ChoreMessage == <<"c", "h", "o", "r", "e", ":", " ", "c", "l", "e", "a", "n", "u", "p">>

ListsOver(S, n) == UNION { [1..k -> S] : k \in 0..n }

Commit(text) == [message |-> text]

PrepareCommitLists ==
    ListsOver({Commit(BotMessage), Commit(ApiMessage), Commit(ChoreMessage)},
              MaxCommits)

\* nextRelease.type: the three release types and one that is none of them
TypeTokens == ReleaseTypes \cup {"rc"}

\* --------------------------------------------------------------- the state
VARIABLES
    fs,      \* the files: bot, api, pyproject, botPkg, apiPkg
    pc,      \* where prepare is: idle, classify, ..., returned, thrown
    ctx,     \* context of the prepare call: commits, releaseType
    loc,     \* the local variables of prepare, its result and its error
    hist,    \* history: steps taken, files written, files at the start
    calc,    \* an application of calculateNextVersion
    cls,     \* an application of analyzeCommits
    rt       \* a write/read round trip on one version file

vars == <<fs, pc, ctx, loc, hist, calc, cls, rt>>

NoCalc == [stage |-> "off"]

NoCls == [stage |-> "off"]

NoRt == [stage |-> "off"]

InitLoc ==
    [currentBotVersion |-> null, currentApiVersion |-> null,
     bumpBot |-> FALSE, bumpApi |-> FALSE,
     botVersion |-> null, apiVersion |-> null,
     result |-> [botVersion |-> null, apiVersion |-> null, version |-> null],
     error |-> "none", warned |-> FALSE]

InitHist(f) ==
    [log |-> <<>>, written |-> {}, failed |-> {}, fs0 |-> f,
     syncExit |-> "none"]

Init ==
    /\ fs \in [bot : BotFiles, api : ApiFiles, pyproject : PyprojectFiles,
               botPkg : {StaleManifest("nightscout-backup-bot")},
               apiPkg : {StaleManifest("nightscout-backup-api")}]
    /\ pc = "idle"
    /\ ctx = [commits |-> <<>>, releaseType |-> "patch"]
    /\ loc = InitLoc
    /\ hist = InitHist(fs)
    /\ calc = NoCalc
    /\ cls = NoCls
    /\ rt = NoRt

Log(step) == [hist EXCEPT !.log = Append(@, step)]

\* prepare, lines 120-132: the context is taken apart and both current
\* versions are read; a version that cannot be read ends the call
PrepareRead ==
    /\ pc = "idle"
    /\ \E cs \in PrepareCommitLists, t \in TypeTokens, ioBot, ioApi \in BOOLEAN :
         \E currentBotVersion \in {readPythonVersion(fs.bot, ioBot)},
            currentApiVersion \in {readPythonVersion(fs.api, ioApi)} :
             /\ ctx' = [commits |-> cs, releaseType |-> t]
             /\ loc' = [loc EXCEPT !.currentBotVersion = currentBotVersion,
                                   !.currentApiVersion = currentApiVersion,
                                   !.error = IF Falsy(currentBotVersion)
                                                \/ Falsy(currentApiVersion)
                                             THEN "read" ELSE "none"]
             /\ pc' = IF Falsy(currentBotVersion) \/ Falsy(currentApiVersion)
                      THEN "thrown" ELSE "classify"
    /\ hist' = [InitHist(fs) EXCEPT !.log = <<"read">>]
    /\ UNCHANGED <<fs, calc, cls, rt>>

\* prepare, lines 137-142
PrepareClassify ==
    /\ pc = "classify"
    /\ \E d \in {analyzeCommits(ctx.commits)} :
       loc' = [loc EXCEPT !.bumpBot = d.bumpBot, !.bumpApi = d.bumpApi,
                          !.botVersion = loc.currentBotVersion,
                          !.apiVersion = loc.currentApiVersion]
    /\ pc' = "compute"
    /\ hist' = Log("classify")
    /\ UNCHANGED <<fs, ctx, calc, cls, rt>>

BumpedVersionAlways(bump, currentVersion, releaseType) ==
    calculateNextVersion(currentVersion, releaseType)

\* lines 141-153: "let v = current; if (bump) v = calculateNextVersion(...)"
BumpedVersion(bump, currentVersion, releaseType) ==
    IF bump THEN calculateNextVersion(currentVersion, releaseType)
    ELSE currentVersion

\* prepare, lines 144-153
PrepareCompute ==
    /\ pc = "compute"
    /\ loc' = [loc EXCEPT
                 !.botVersion = BumpedVersion(loc.bumpBot, loc.currentBotVersion,
                                              ctx.releaseType),
                 !.apiVersion = BumpedVersion(loc.bumpApi, loc.currentApiVersion,
                                              ctx.releaseType)]
    /\ pc' = "writeBot"
    /\ hist' = Log("compute")
    /\ UNCHANGED <<fs, ctx, calc, cls, rt>>

AfterWriteIgnoringFailure(ok, next) == next

\* "if (!update...(...)) throw new Error(...)": where prepare goes after a
\* persist step
AfterWrite(ok, next) == IF ok THEN next ELSE "thrown"

Wrote(location, ok) ==
    [hist EXCEPT !.log = Append(@, location),
                 !.written = IF ok THEN @ \cup {location} ELSE @,
                 !.failed = IF ok THEN @ ELSE @ \cup {location}]

\* prepare, lines 156-160: the bot version constant
PrepareWriteBot ==
    /\ pc = "writeBot"
    /\ IF loc.bumpBot
       THEN \E ioOk \in BOOLEAN :
              \E r \in {updatePythonVersion(fs.bot, loc.botVersion, ioOk)} :
                  /\ fs' = [fs EXCEPT !.bot = r.file]
                  /\ pc' = AfterWrite(r.ok, "writePyproject")
                  /\ loc' = [loc EXCEPT !.error = IF pc' = "thrown"
                                                  THEN "bot" ELSE @]
                  /\ hist' = Wrote("bot", r.ok)
       ELSE /\ pc' = "writeApi"
            /\ UNCHANGED <<fs, loc, hist>>
    /\ UNCHANGED <<ctx, calc, cls, rt>>

\* prepare, lines 162-168: the packaging manifest follows the bot version
PrepareWritePyproject ==
    /\ pc = "writePyproject"
    /\ IF fs.pyproject.present
       THEN \E ioOk \in BOOLEAN :
              \E r \in {updatePyprojectVersion(fs.pyproject, loc.botVersion,
                                                ioOk)} :
                  /\ fs' = [fs EXCEPT !.pyproject = r.file]
                  /\ pc' = AfterWrite(r.ok, "writeApi")
                  /\ loc' = [loc EXCEPT !.error = IF pc' = "thrown"
                                                  THEN "pyproject" ELSE @]
                  /\ hist' = Wrote("pyproject", r.ok)
       ELSE /\ pc' = "writeApi"
            /\ UNCHANGED <<fs, loc, hist>>
    /\ UNCHANGED <<ctx, calc, cls, rt>>

\* prepare, lines 171-176: the API version constant
PrepareWriteApi ==
    /\ pc = "writeApi"
    /\ IF loc.bumpApi
       THEN \E ioOk \in BOOLEAN :
              \E r \in {updatePythonVersion(fs.api, loc.apiVersion, ioOk)} :
                  /\ fs' = [fs EXCEPT !.api = r.file]
                  /\ pc' = AfterWrite(r.ok, "sync")
                  /\ loc' = [loc EXCEPT !.error = IF pc' = "thrown"
                                                  THEN "api" ELSE @]
                  /\ hist' = Wrote("api", r.ok)
       ELSE /\ pc' = "sync"
            /\ UNCHANGED <<fs, loc, hist>>
    /\ UNCHANGED <<ctx, calc, cls, rt>>

AfterSyncThrowing(ok) == IF ok THEN "returned" ELSE "thrown"

\* lines 180-184: a failed sync is logged as a warning and prepare goes on
AfterSync(ok) == "returned"

\* prepare, lines 178-190: the wrapper manifests are synced and the versions
\* are returned
PrepareSync ==
    /\ pc = "sync"
    /\ \E spawnOk \in BOOLEAN :
       \E io \in IF spawnOk THEN SyncIo ELSE {AllOk} :
       \E r \in {syncWrapperVersions(fs, spawnOk, io)} :
         /\ fs' = r.fs
         /\ pc' = AfterSync(r.ok)
         /\ loc' = [loc EXCEPT
                      !.warned = ~r.ok,
                      !.error = IF pc' = "thrown" THEN "sync" ELSE @,
                      !.result = IF pc' = "returned"
                                 THEN [botVersion |-> loc.botVersion,
                                       apiVersion |-> loc.apiVersion,
                                       version |-> loc.botVersion]
                                 ELSE @]
    /\ hist' = Log("sync")
    /\ UNCHANGED <<ctx, calc, cls, rt>>

\* node scripts/sync_versions.js run on its own; the process exits with the
\* status of the script
SyncEntry ==
    /\ pc = "idle"
    /\ \E io \in SyncIo :
       \E r \in {syncVersionsMain(fs, io)} :
         /\ fs' = r.fs
         /\ hist' = [hist EXCEPT !.syncExit = IF r.status = 0 THEN "ok" ELSE "failed"]
    /\ pc' = "exited"
    /\ UNCHANGED <<ctx, loc, calc, cls, rt>>

Next ==
    \/ PrepareRead
    \/ PrepareClassify
    \/ PrepareCompute
    \/ PrepareWriteBot
    \/ PrepareWritePyproject
    \/ PrepareWriteApi
    \/ PrepareSync
    \/ SyncEntry

Spec == Init /\ [][Next]_vars

\* ------------------------------------------ calculateNextVersion on its own
Components == (0..MaxComp) \cup {9, 10, 99}

VersionText(a, b, c) ==
    NatToString(a) \o <<".">> \o NatToString(b) \o <<".">> \o NatToString(c)

\* the same version with a zero in front of every component
PaddedVersionText(a, b, c) ==
    <<"0">> \o NatToString(a) \o <<".", "0">> \o NatToString(b)
        \o <<".", "0">> \o NatToString(c)

Off ==
    /\ fs = [bot |-> Missing, api |-> Missing, pyproject |-> Missing,
             botPkg |-> StaleManifest("nightscout-backup-bot"),
             apiPkg |-> StaleManifest("nightscout-backup-api")]
    /\ pc = "off"
    /\ ctx = [commits |-> <<>>, releaseType |-> "patch"]
    /\ loc = InitLoc
    /\ hist = InitHist(fs)

InitCalc ==
    /\ Off
    /\ \E a, b, c \in Components, padded \in BOOLEAN, t \in TypeTokens :
         calc = [stage |-> "input", major |-> a, minor |-> b, patch |-> c,
                 currentVersion |-> IF padded THEN PaddedVersionText(a, b, c)
                                    ELSE VersionText(a, b, c),
                 releaseType |-> t, result |-> null]
    /\ cls = NoCls
    /\ rt = NoRt

CalcApply ==
    /\ calc.stage = "input"
    /\ calc' = [calc EXCEPT !.stage = "done",
                            !.result = calculateNextVersion(calc.currentVersion,
                                                            calc.releaseType)]
    /\ UNCHANGED <<fs, pc, ctx, loc, hist, cls, rt>>

NextCalc == CalcApply

SpecCalc == InitCalc /\ [][NextCalc]_vars

\* ------------------------------------------------ analyzeCommits on its own
\* Commits with the scope a reader gives them: "bot", "api" or "none".
\* "feat(bot): x", "Bot: fix retry", "fix(BOT): q", "perf(bot): p", "botany",
\* "feat(api): add", "API: y", "refactor(api) r",
\* "chore: cleanup", "docs: readme", "feature(bot): z", " bot: w"
ScopedCommits ==
    { [message |-> BotMessage, scope |-> "bot"],
      [message |-> <<"B", "o", "t", ":", " ", "f", "i", "x", " ", "r", "e", "t", "r", "y">>,
       scope |-> "bot"],
      [message |-> <<"f", "i", "x", "(", "B", "O", "T", ")", ":", " ", "q">>,
       scope |-> "bot"],
      [message |-> <<"p", "e", "r", "f", "(", "b", "o", "t", ")", ":", " ", "p">>,
       scope |-> "bot"],
      [message |-> <<"b", "o", "t", "a", "n", "y">>, scope |-> "bot"],
      [message |-> ApiMessage, scope |-> "api"],
      [message |-> <<"A", "P", "I", ":", " ", "y">>, scope |-> "api"],
      [message |-> <<"r", "e", "f", "a", "c", "t", "o", "r", "(", "a", "p", "i", ")", " ", "r">>,
       scope |-> "api"],
      [message |-> ChoreMessage, scope |-> "none"],
      [message |-> <<"d", "o", "c", "s", ":", " ", "r", "e", "a", "d", "m", "e">>,
       scope |-> "none"],
      [message |-> <<"f", "e", "a", "t", "u", "r", "e", "(", "b", "o", "t", ")", ":", " ", "z">>,
       scope |-> "none"],
      [message |-> <<" ", "b", "o", "t", ":", " ", "w">>, scope |-> "none"] }

InitCommits ==
    /\ Off
    /\ calc = NoCalc
    /\ \E cs \in ListsOver(ScopedCommits, MaxCommits) :
         cls = [stage |-> "input", commits |-> cs,
                result |-> [bumpBot |-> FALSE, bumpApi |-> FALSE]]
    /\ rt = NoRt

CommitsApply ==
    /\ cls.stage = "input"
    /\ cls' = [cls EXCEPT !.stage = "done", !.result = analyzeCommits(cls.commits)]
    /\ UNCHANGED <<fs, pc, ctx, loc, hist, calc, rt>>

NextCommits == CommitsApply

SpecCommits == InitCommits /\ [][NextCommits]_vars

\* ------------------------------------------ write, read back, write again
\* version files, each with whether a reader finds a version constant in it
RoundTripFiles ==
    { [file |-> Text(<<PyKey, " ", "=", " ", "\"", "2", ".", "0", ".", "0", "\"", "\n">>),
       declared |-> TRUE],
      [file |-> Text(<<"#", "\n", PyKey, "=", "'", "1", ".", "9", ".", "9", "'", "\n",
                       PyKey, " ", "=", " ", "\"", "0", ".", "0", ".", "1", "\"", "\n">>),
       declared |-> TRUE],
      [file |-> Text(<<PyKey, " ", " ", "=", "\t", "'", "1", ".", "2", ".", "3", "-", "a", "'">>),
       declared |-> TRUE],
      [file |-> Text(<<"#", " ", "b", "o", "t", "\n">>), declared |-> FALSE],
      [file |-> Missing, declared |-> FALSE] }

InitRoundTrip ==
    /\ Off
    /\ calc = NoCalc
    /\ cls = NoCls
    /\ \E f \in RoundTripFiles, a, b, c \in Components :
         rt = [stage |-> "input", declared |-> f.declared, file |-> f.file,
               version |-> VersionText(a, b, c),
               wrote |-> FALSE, after |-> f.file,
               readOk |-> FALSE, got |-> null,
               script |-> [status |-> 1, stdout |-> <<>>],
               wroteAgain |-> FALSE, again |-> f.file]

\* updatePythonVersion(file, version)
RoundTripWrite ==
    /\ rt.stage = "input"
    /\ \E ioOk \in BOOLEAN :
       \E r \in {updatePythonVersion(rt.file, rt.version, ioOk)} :
         rt' = [rt EXCEPT !.stage = "written", !.wrote = r.ok, !.after = r.file]
    /\ UNCHANGED <<fs, pc, ctx, loc, hist, calc, cls>>

\* readPythonVersion(file) and get_version.js on the file as written
RoundTripRead ==
    /\ rt.stage = "written"
    /\ \E ioOk \in BOOLEAN :
         rt' = [rt EXCEPT !.stage = "read", !.readOk = rt.after.present /\ ioOk,
                          !.got = readPythonVersion(rt.after, ioOk),
                          !.script = getVersionScript(rt.after, ioOk)]
    /\ UNCHANGED <<fs, pc, ctx, loc, hist, calc, cls>>

\* updatePythonVersion(file, version) a second time
RoundTripWriteAgain ==
    /\ rt.stage = "read"
    /\ \E ioOk \in BOOLEAN :
       \E r \in {updatePythonVersion(rt.after, rt.version, ioOk)} :
         rt' = [rt EXCEPT !.stage = "rewritten", !.wroteAgain = r.ok,
                          !.again = r.file]
    /\ UNCHANGED <<fs, pc, ctx, loc, hist, calc, cls>>

NextRoundTrip ==
    \/ RoundTripWrite
    \/ RoundTripRead
    \/ RoundTripWriteAgain

SpecRoundTrip == InitRoundTrip /\ [][NextRoundTrip]_vars

\* ---------------------------------------------------------------- claims
\* C1: for a version major.minor.patch of non-negative integers and a release
\* type among major, minor and patch, calculateNextVersion adds one to the
\* selected component, sets every lower component to zero and keeps every
\* higher component.
C1_NextVersion ==
    (calc.stage = "done" /\ calc.releaseType \in ReleaseTypes) =>
        calc.result =
            CASE calc.releaseType = "major" -> VersionText(calc.major + 1, 0, 0)
              [] calc.releaseType = "minor" ->
                   VersionText(calc.major, calc.minor + 1, 0)
              [] calc.releaseType = "patch" ->
                   VersionText(calc.major, calc.minor, calc.patch + 1)

C1_Witness ==
    /\ calc.stage = "done"
    /\ calc.releaseType = "minor"
    /\ calc.major = 1 /\ calc.minor = 9 /\ calc.patch = 2
    /\ calc.result = <<"1", ".", "1", "0", ".", "0">>

PastCompute == pc \in {"writeBot", "writePyproject", "writeApi", "sync", "returned"}

\* C2: with a release type that is none of major, minor, patch the version
\* calculation fails and prepare aborts: prepare never goes on to its write
\* steps, and never holds an unchanged version as the new one.
C2_InvalidReleaseTypeAborts ==
    (hist.log # <<>> /\ ctx.releaseType \notin ReleaseTypes) => ~PastCompute

HasScope(scope) == \E i \in 1..Len(cls.commits) : cls.commits[i].scope = scope

\* C3: bumpBot is (some commit is a bot commit) or (no commit is a bot or an
\* api commit), bumpApi is (some commit is an api commit) or (no commit is a
\* bot or an api commit), and the flags are never both false.
C3_BumpDecision ==
    cls.stage = "done" =>
        /\ cls.result.bumpBot =
             (HasScope("bot") \/ (~HasScope("bot") /\ ~HasScope("api")))
        /\ cls.result.bumpApi =
             (HasScope("api") \/ (~HasScope("bot") /\ ~HasScope("api")))
        /\ (cls.result.bumpBot \/ cls.result.bumpApi)

C3_Witness ==
    /\ cls.stage = "done"
    /\ HasScope("api") /\ HasScope("none") /\ ~HasScope("bot")
    /\ cls.result = [bumpBot |-> FALSE, bumpApi |-> TRUE]

Computed == \E i \in 1..Len(hist.log) : hist.log[i] = "compute"

\* the version a reader finds in a file when the read succeeds
VersionIn(file) == readPythonVersion(file, TRUE)

\* C4: in a prepare run a component whose bump flag is false keeps its
\* version: the version prepare holds and returns for it is the one read at
\* the start, and prepare does not write its version constant.
C4_UnbumpedKept ==
    /\ (Computed /\ ~loc.bumpBot) =>
          /\ loc.botVersion = VersionIn(hist.fs0.bot)
          /\ fs.bot = hist.fs0.bot
          /\ \A i \in 1..Len(hist.log) : hist.log[i] # "bot"
          /\ (pc = "returned" => loc.result.botVersion = VersionIn(hist.fs0.bot))
    /\ (Computed /\ ~loc.bumpApi) =>
          /\ loc.apiVersion = VersionIn(hist.fs0.api)
          /\ fs.api = hist.fs0.api
          /\ \A i \in 1..Len(hist.log) : hist.log[i] # "api"
          /\ (pc = "returned" => loc.result.apiVersion = VersionIn(hist.fs0.api))

C4_Witness ==
    /\ pc = "returned"
    /\ ctx.releaseType = "minor"
    /\ ctx.commits = <<Commit(BotMessage)>>
    /\ VersionIn(hist.fs0.bot) = <<"2", ".", "0", ".", "0">>
    /\ loc.result = [botVersion |-> <<"2", ".", "1", ".", "0">>,
                     apiVersion |-> <<"1", ".", "5", ".", "2">>,
                     version |-> <<"2", ".", "1", ".", "0">>]
    /\ VersionIn(fs.bot) = <<"2", ".", "1", ".", "0">>
    /\ fs.api = hist.fs0.api

\* the locations this run of prepare is due to rewrite
Due ==
    (IF loc.bumpBot
     THEN {"bot"} \cup (IF hist.fs0.pyproject.present THEN {"pyproject"} ELSE {})
     ELSE {})
    \cup (IF loc.bumpApi THEN {"api"} ELSE {})

\* C5: when a persist step of prepare fails, the locations are not left
\* partially updated: prepare never ends in failure with one of the locations
\* it was due to rewrite changed and another one not rewritten.
C5_NoPartialUpdate ==
    pc = "thrown" =>
        ~(\E a, b \in Due : fs[a] # hist.fs0[a] /\ b \notin hist.written)

Rank(step) ==
    CASE step = "read" -> 1
      [] step = "classify" -> 2
      [] step = "compute" -> 3
      [] step = "bot" -> 4
      [] step = "pyproject" -> 5
      [] step = "api" -> 6
      [] step = "sync" -> 7

InLog(step) == \E i \in 1..Len(hist.log) : hist.log[i] = step

\* C6: the steps of prepare run in the order read, classify, compute, write,
\* sync, none of them before the one it depends on; the sync step runs only
\* after every required write has succeeded, and a failed write ends prepare
\* without the sync step.
C6_StepOrder ==
    /\ \A i, j \in 1..Len(hist.log) :
          i < j => Rank(hist.log[i]) < Rank(hist.log[j])
    /\ \A i \in 1..Len(hist.log) :
          Rank(hist.log[i]) > 1 /\ Rank(hist.log[i]) <= 4 =>
              i > 1 /\ Rank(hist.log[i - 1]) = Rank(hist.log[i]) - 1
    /\ \A step \in {"pyproject", "api", "sync"} : InLog(step) => InLog("compute")
    /\ InLog("sync") =>
          /\ hist.failed = {}
          /\ Due \subseteq hist.written
    /\ hist.failed # {} => pc = "thrown" /\ ~InLog("sync")

C6_Witness ==
    /\ pc = "thrown"
    /\ hist.written = {"bot", "pyproject"}
    /\ hist.failed = {"api"}
    /\ hist.log = <<"read", "classify", "compute", "bot", "pyproject", "api">>

\* a version of the shape digits.digits.digits
SemverShape(v) ==
    /\ v # null
    /\ Len(Split(v)) = 3
    /\ \A i \in 1..3 : Split(v)[i] # <<>> /\ AllDigits(Split(v)[i])

\* C7: when the current version of a component cannot be located, or is not
\* of the shape digits.digits.digits, prepare fails before any location is
\* written: it writes nothing and does not return.
C7_MalformedVersionRejected ==
    (/\ hist.log # <<>>
     /\ ~(SemverShape(VersionIn(hist.fs0.bot)) /\ SemverShape(VersionIn(hist.fs0.api))))
        => (hist.written = {} /\ pc # "returned")

\* C8: a failure of the sync step is not fatal: prepare never throws once
\* the sync step has run; after a failed sync it has warned, the version
\* constants it wrote hold their new values, and it returns the new bot and
\* API versions with the bot version as the primary version.
C8_SyncFailureIsWarning ==
    /\ InLog("sync") => pc = "returned" /\ loc.error = "none"
    /\ (pc = "returned" /\ loc.warned) =>
          /\ loc.result.botVersion =
                IF loc.bumpBot
                THEN calculateNextVersion(VersionIn(hist.fs0.bot), ctx.releaseType)
                ELSE VersionIn(hist.fs0.bot)
          /\ loc.result.apiVersion =
                IF loc.bumpApi
                THEN calculateNextVersion(VersionIn(hist.fs0.api), ctx.releaseType)
                ELSE VersionIn(hist.fs0.api)
          /\ loc.result.version = loc.result.botVersion
          /\ VersionIn(fs.bot) = loc.result.botVersion
          /\ VersionIn(fs.api) = loc.result.apiVersion

C8_Witness ==
    /\ pc = "returned"
    /\ loc.warned
    /\ loc.bumpBot /\ loc.bumpApi
    /\ ctx.releaseType = "patch"
    /\ fs.bot # hist.fs0.bot
    /\ fs.api # hist.fs0.api
    /\ fs.botPkg = hist.fs0.botPkg

\* C9: on a file that holds a version constant, writing X.Y.Z with
\* updatePythonVersion and reading with readPythonVersion or get_version.js
\* gives exactly X.Y.Z, and writing it a second time leaves the file as it is.
C9_RoundTrip ==
    /\ (rt.stage \in {"read", "rewritten"} /\ rt.declared /\ rt.wrote /\ rt.readOk) =>
          /\ rt.got = rt.version
          /\ rt.script = [status |-> 0, stdout |-> rt.version \o <<"\n">>]
    /\ (rt.stage = "rewritten" /\ rt.declared /\ rt.wrote /\ rt.wroteAgain) =>
          rt.again = rt.after

C9_Witness ==
    /\ rt.stage = "rewritten"
    /\ rt.declared /\ rt.wrote /\ rt.readOk /\ rt.wroteAgain
    /\ rt.version = <<"1", ".", "1", "0", ".", "0">>
    /\ rt.after # rt.file
    /\ rt.got = <<"1", ".", "1", "0", ".", "0">>

\* C10: whenever prepare has returned or the sync script has exited, each
\* wrapper manifest holds the version of its component's version constant
\* (for components whose version constant exists).
C10_ManifestsMirror ==
    (/\ pc \in {"returned", "exited"}
     /\ VersionIn(fs.bot) # null
     /\ VersionIn(fs.api) # null) =>
        /\ fs.botPkg.version = VersionIn(fs.bot)
        /\ fs.apiPkg.version = VersionIn(fs.api)

====
